---- MODULE Spec2Model ----
(***************************************************************************)
(* Semantic analysis of Nimble programs (nimblesemantics.py).              *)
(*                                                                         *)
(* A program is a parse tree.  The tree walker calls the listener methods  *)
(* of DefineScopesAndSymbols over the whole tree and then those of         *)
(* InferTypesAndCheckConstraints over the same tree.  Every listener       *)
(* method of the source is one action; the walker's remaining callbacks    *)
(* are the queue `walk`.                                                   *)
(*                                                                         *)
(* A parse tree node is a record [kind, text, ty, kids]:                   *)
(*   kind  the context class (FuncDef, VarDec, If, AddSub, ...),           *)
(*   text  ID().getText(), op.text or the literal's text,                  *)
(*   ty    TYPE().getText(), or NoType when TYPE() is None,                *)
(*   kids  the child contexts in source order.                             *)
(* A node is identified by its path from the root (child indexes).         *)
(* Diagnostics are [ctx, category]; the message text is not modelled.      *)
(***************************************************************************)
EXTENDS Integers, Sequences, FiniteSets, TLC

VARIABLES
    tree,           \* the parse tree handed over by the parser
    walk,           \* callbacks the tree walker still has to make
    current_scope,  \* self.current_scope of each listener (a scope index)
    scopes,         \* the Scope objects, in creation order; 1 is $global
    type_of,        \* the `types` dictionary: node path -> type
    error_log,      \* ErrorLog: sequence of [ctx, category]
    crashed,        \* an exception left a listener method
    previous        \* what the analyses already run on this tree produced

vars == <<tree, walk, current_scope, scopes, type_of, error_log, crashed, previous>>

-----------------------------------------------------------------------------
(* Bounds of the program families checked.                                 *)

MaxExprDepth == 2   \* nesting depth of the expressions
MaxArgs == 2        \* arguments of a call
MaxParams == 2      \* parameters of a function definition
MaxDecs == 2        \* declarations of a variable block
MaxStmts == 3       \* statements of a function's body block

-----------------------------------------------------------------------------
(* symboltable: types, symbols, scopes                                     *)

NoType == "None"

PrimitiveType(n) ==
    [cls |-> "PrimitiveType", name |-> n, parameter_types |-> <<>>, return_type |-> NoType]

FunctionType(parameter_types, return_type) ==
    [cls |-> "FunctionType", name |-> NoType,
     parameter_types |-> parameter_types, return_type |-> return_type]

T_Int == PrimitiveType("Int")
T_Bool == PrimitiveType("Bool")
T_String == PrimitiveType("String")
T_Void == PrimitiveType("Void")
T_ERROR == PrimitiveType("ERROR")

Symbol(name, type, is_param) == [name |-> name, type |-> type, is_param |-> is_param]

EmptyMap == [k \in {} |-> 0]

MapPut(m, k, v) == [x \in (DOMAIN m) \cup {k} |-> IF x = k THEN v ELSE m[x]]

\* "No scope": the enclosing_scope of $global.
NoScope == 0

\* "No symbol": what resolve returns for a name that is not bound.
None ==
    [name |-> NoType, is_param |-> FALSE,
     type |-> [cls |-> "NoneType", name |-> NoType, parameter_types |-> <<>>,
               return_type |-> NoType]]

Scope(name, return_type, enclosing_scope) ==
    [name |-> name, return_type |-> return_type, enclosing_scope |-> enclosing_scope,
     symbols |-> EmptyMap, child_scopes |-> EmptyMap]

\* Scope.define: writes the symbol into scope s itself, replacing any
\* symbol of that name.
define(S, s, name, type, is_param) ==
    [S EXCEPT ![s].symbols = MapPut(@, name, Symbol(name, type, is_param))]

\* Scope.resolve: first match walking the enclosing_scope links, or None.
RECURSIVE resolve(_, _, _)
resolve(S, s, name) ==
    IF s = NoScope THEN None
    ELSE IF name \in DOMAIN S[s].symbols THEN S[s].symbols[name]
    ELSE resolve(S, S[s].enclosing_scope, name)

\* Scope.create_child_scope: a new Scope object, registered under its name
\* in the parent (a later child of the same name replaces the entry).
create_child_scope(S, s, name, return_type) ==
    Append([S EXCEPT ![s].child_scopes = MapPut(@, name, Len(S) + 1)],
           Scope(name, return_type, s))

child_scope_named(S, s, name) == S[s].child_scopes[name]

-----------------------------------------------------------------------------
(* The parse tree                                                          *)

Node(kind, text, ty, kids) == [kind |-> kind, text |-> text, ty |-> ty, kids |-> kids]

RECURSIVE SubTree(_, _)
SubTree(n, p) == IF p = <<>> THEN n ELSE SubTree(n.kids[Head(p)], Tail(p))

NodeAt(p) == SubTree(tree, p)

Kids(p) == [i \in 1..Len(NodeAt(p).kids) |-> Append(p, i)]

Parent(p) == SubSeq(p, 1, Len(p) - 1)

\* Concatenation of a sequence of sequences.
RECURSIVE Flatten(_)
Flatten(ss) == IF ss = <<>> THEN <<>> ELSE Head(ss) \o Flatten(Tail(ss))

-----------------------------------------------------------------------------
(* The tree walker: enter, children in order, exit.  Only the methods a    *)
(* listener overrides are callbacks.                                       *)

P1 == "DefineScopesAndSymbols"
P2 == "InferTypesAndCheckConstraints"

RECURSIVE Traversal(_, _)
Traversal(n, p) ==
    <<[phase |-> "enter", ctx |-> p, kind |-> n.kind]>>
    \o Flatten([i \in 1..Len(n.kids) |-> Traversal(n.kids[i], Append(p, i))])
    \o <<[phase |-> "exit", ctx |-> p, kind |-> n.kind]>>

Overrides(listener, e) ==
    IF listener = P1
    THEN \/ e.kind = "Main"
         \/ e.kind = "FuncDef" /\ e.phase = "enter"
    ELSE \/ e.phase = "exit"
         \/ e.phase = "enter" /\ e.kind \in {"FuncDef", "Main"}

Callbacks(listener, t) ==
    LET all == Traversal(t, <<>>)
        keep == SelectSeq(all, LAMBDA e : Overrides(listener, e))
    IN [i \in 1..Len(keep) |-> [listener |-> listener, phase |-> keep[i].phase,
                                ctx |-> keep[i].ctx]]

\* The callback being made and the node it is made for.
ctx == Head(walk).ctx

Calls(listener, phase, kind) ==
    /\ ~crashed
    /\ walk # <<>>
    /\ Head(walk).listener = listener
    /\ Head(walk).phase = phase
    /\ NodeAt(Head(walk).ctx).kind = kind

Returns == walk' = Tail(walk)

add(c, category) == [ctx |-> c, category |-> category]

-----------------------------------------------------------------------------
(* class DefineScopesAndSymbols                                            *)

DefineScopesAndSymbols_enterMain ==
    /\ Calls(P1, "enter", "Main")
    /\ scopes' = create_child_scope(scopes, current_scope[P1], "$main", T_Void)
    /\ current_scope' = [current_scope EXCEPT ![P1] = Len(scopes) + 1]
    /\ Returns
    /\ UNCHANGED <<previous, tree, type_of, error_log, crashed>>

DefineScopesAndSymbols_exitMain ==
    /\ Calls(P1, "exit", "Main")
    /\ current_scope' = [current_scope EXCEPT ![P1] = scopes[@].enclosing_scope]
    /\ Returns
    /\ UNCHANGED <<previous, tree, scopes, type_of, error_log, crashed>>

\* The parameter TYPEs of a funcDef: every child but the body.
param_types(funcDef) ==
    [i \in 1..(Len(funcDef.kids) - 1) |-> funcDef.kids[i].ty]

ret_type(funcDef) ==
    IF funcDef.ty # NoType THEN PrimitiveType(funcDef.ty) ELSE T_Void

DefineScopesAndSymbols_enterFuncDef ==
    /\ Calls(P1, "enter", "FuncDef")
    /\ LET funcDef == NodeAt(ctx)
           func_name == funcDef.text
           this_funcDef == FunctionType(param_types(funcDef), ret_type(funcDef).name)
           defined == define(scopes, current_scope[P1], func_name, this_funcDef, FALSE)
       IN scopes' = create_child_scope(defined, current_scope[P1], func_name,
                                       ret_type(funcDef))
    /\ Returns
    /\ UNCHANGED <<previous, tree, current_scope, type_of, error_log, crashed>>

-----------------------------------------------------------------------------
(* class InferTypesAndCheckConstraints                                     *)

here == current_scope[P2]

enterFuncDef ==
    /\ Calls(P2, "enter", "FuncDef")
    /\ current_scope' =
           [current_scope EXCEPT ![P2] = child_scope_named(scopes, @, NodeAt(ctx).text)]
    /\ Returns
    /\ UNCHANGED <<previous, tree, scopes, type_of, error_log, crashed>>

\* Mutant of exitFuncDef: the cursor is left in the function's scope.
exitFuncDef_keeps_scope ==
    /\ Calls(P2, "exit", "FuncDef")
    /\ Returns
    /\ UNCHANGED <<previous, tree, current_scope, scopes, type_of, error_log, crashed>>

exitFuncDef ==
    /\ Calls(P2, "exit", "FuncDef")
    /\ current_scope' = [current_scope EXCEPT ![P2] = scopes[@].enclosing_scope]
    /\ Returns
    /\ UNCHANGED <<previous, tree, scopes, type_of, error_log, crashed>>

\* Mutant of sub_var_dec: reports the duplicate and leaves the binding as it was.
sub_var_dec_keeps_binding(c) ==
    IF resolve(scopes, here, NodeAt(c).text) # None
    THEN [scopes |-> scopes,
          error_log |-> Append(error_log, add(c, "DUPLICATE_NAME")),
          error |-> TRUE]
    ELSE [scopes |-> scopes, error_log |-> error_log, error |-> FALSE]

\* sub_var_dec: the duplicate-name check shared by variable and parameter
\* declarations.  Yields the scopes and the log after it, and `error`.
sub_var_dec(c) ==
    LET this_ID == NodeAt(c).text
    IN IF resolve(scopes, here, this_ID) # None
       THEN [scopes |-> define(scopes, here, this_ID, T_ERROR, FALSE),
             error_log |-> Append(error_log, add(c, "DUPLICATE_NAME")),
             error |-> TRUE]
       ELSE [scopes |-> scopes, error_log |-> error_log, error |-> FALSE]

exitParameterDef ==
    /\ Calls(P2, "exit", "ParameterDef")
    /\ LET r == sub_var_dec(ctx)
           var_primtype == PrimitiveType(NodeAt(ctx).ty)
       IN /\ scopes' = IF ~r.error
                       THEN define(r.scopes, here, NodeAt(ctx).text, var_primtype, TRUE)
                       ELSE r.scopes
          /\ error_log' = r.error_log
    /\ Returns
    /\ UNCHANGED <<previous, tree, current_scope, type_of, crashed>>

\* Mutant of return_errors: a missing expression is not reported.
return_errors_ignores_missing(c) ==
    LET expr == NodeAt(c).kids
        return_type == scopes[here].return_type
    IN IF return_type # T_Void
       THEN IF expr # <<>> /\ return_type # type_of[Kids(c)[1]]
            THEN <<add(c, "INVALID_RETURN")>> ELSE <<>>
       ELSE IF expr # <<>> THEN <<add(c, "INVALID_RETURN")>>
            ELSE <<>>

\* The diagnostics exitReturn adds for the return statement c.
return_errors(c) ==
    LET expr == NodeAt(c).kids
        return_type == scopes[here].return_type
    IN IF return_type # T_Void
       THEN IF expr = <<>> THEN <<add(c, "INVALID_RETURN")>>
            ELSE IF return_type # type_of[Kids(c)[1]] THEN <<add(c, "INVALID_RETURN")>>
            ELSE <<>>
       ELSE IF expr # <<>> THEN <<add(c, "INVALID_RETURN")>>
            ELSE <<>>

exitReturn ==
    /\ Calls(P2, "exit", "Return")
    /\ error_log' = error_log \o return_errors(ctx)
    /\ Returns
    /\ UNCHANGED <<previous, tree, current_scope, scopes, type_of, crashed>>

\* The positions exitFuncCall compares: zip stops at the shorter sequence.
zip(func_args, parameter_types) ==
    1..(IF Len(func_args) < Len(parameter_types)
        THEN Len(func_args) ELSE Len(parameter_types))

\* Mutant of error_found: only the first argument is compared.
error_found_first_only(c, func_symbol) ==
    /\ zip(Kids(c), func_symbol.type.parameter_types) # {}
    /\ type_of[Kids(c)[1]] # PrimitiveType(func_symbol.type.parameter_types[1])

error_found(c, func_symbol) ==
    \E i \in zip(Kids(c), func_symbol.type.parameter_types) :
        type_of[Kids(c)[i]] # PrimitiveType(func_symbol.type.parameter_types[i])

exitFuncCall ==
    /\ Calls(P2, "exit", "FuncCall")
    /\ LET func_symbol == resolve(scopes, here, NodeAt(ctx).text)
       IN IF func_symbol = None
          THEN /\ type_of' = MapPut(type_of, ctx, T_ERROR)
               /\ error_log' = Append(error_log, add(ctx, "INVALID_CALL"))
               /\ Returns
               /\ UNCHANGED crashed
          ELSE IF func_symbol.type.cls # "FunctionType"
          THEN \* a PrimitiveType has no parameter_types: AttributeError
               /\ crashed' = TRUE
               /\ UNCHANGED <<walk, type_of, error_log>>
          ELSE IF error_found(ctx, func_symbol)
          THEN /\ error_log' = Append(error_log, add(ctx, "INVALID_CALL"))
               /\ type_of' = MapPut(type_of, ctx, T_ERROR)
               /\ Returns
               /\ UNCHANGED crashed
          ELSE /\ type_of' = MapPut(type_of, ctx, PrimitiveType(func_symbol.type.return_type))
               /\ Returns
               /\ UNCHANGED <<error_log, crashed>>
    /\ UNCHANGED <<previous, tree, current_scope, scopes>>

\* Mutant of exitFuncCallExpr: a Void call is passed on as the expression's type.
exitFuncCallExpr_passes_void ==
    /\ Calls(P2, "exit", "FuncCallExpr")
    /\ type_of' = MapPut(type_of, ctx, type_of[Kids(ctx)[1]])
    /\ Returns
    /\ UNCHANGED <<previous, tree, current_scope, scopes, error_log, crashed>>

exitFuncCallExpr ==
    /\ Calls(P2, "exit", "FuncCallExpr")
    /\ LET _type == type_of[Kids(ctx)[1]]
       IN IF _type = T_Void
          THEN /\ error_log' = Append(error_log, add(ctx, "INVALID_CALL"))
               /\ type_of' = MapPut(type_of, ctx, T_ERROR)
          ELSE /\ type_of' = MapPut(type_of, ctx, _type)
               /\ UNCHANGED error_log
    /\ Returns
    /\ UNCHANGED <<previous, tree, current_scope, scopes, crashed>>

\* A method whose body is `pass`.
Pass(kind) ==
    /\ Calls(P2, "exit", kind)
    /\ Returns
    /\ UNCHANGED <<previous, tree, current_scope, scopes, type_of, error_log, crashed>>

exitFuncCallStmt == Pass("FuncCallStmt")

exitScript == Pass("Script")

enterMain ==
    /\ Calls(P2, "enter", "Main")
    /\ current_scope' = [current_scope EXCEPT ![P2] = child_scope_named(scopes, @, "$main")]
    /\ Returns
    /\ UNCHANGED <<previous, tree, scopes, type_of, error_log, crashed>>

exitMain ==
    /\ Calls(P2, "exit", "Main")
    /\ current_scope' = [current_scope EXCEPT ![P2] = scopes[@].enclosing_scope]
    /\ Returns
    /\ UNCHANGED <<previous, tree, scopes, type_of, error_log, crashed>>

exitBody == Pass("Body")

exitVarBlock == Pass("VarBlock")

(* Reachability: exitBlock and its helpers                                 *)

IsKind(p, kind) == NodeAt(p).kind = kind

\* The statements of the block at path b, in order.
statement(b) == Kids(b)

\* this_if.block(): the blocks of an if statement (kids 2.. of the node).
block(this_if) == [i \in 1..(Len(NodeAt(this_if).kids) - 1) |-> Append(this_if, i + 1)]

RECURSIVE check_if_totalblocked(_), branch_blocked(_, _)
\* One of the two scanning loops of check_if_totalblocked, from statement i
\* of the branch block b on: stops at the first return or totally blocked if.
branch_blocked(b, i) ==
    IF i > Len(statement(b)) THEN FALSE
    ELSE LET this_statement == statement(b)[i]
         IN IF IsKind(this_statement, "If")
            THEN IF check_if_totalblocked(this_statement) THEN TRUE
                 ELSE branch_blocked(b, i + 1)
            ELSE IF IsKind(this_statement, "Return") THEN TRUE
            ELSE branch_blocked(b, i + 1)

\* Mutant of check_if_totalblocked: the else-block is not scanned.
check_if_totalblocked_skips_else(this_if_statement) ==
    IF Len(block(this_if_statement)) < 2 THEN FALSE
    ELSE branch_blocked(block(this_if_statement)[1], 1)

check_if_totalblocked(this_if_statement) ==
    IF Len(block(this_if_statement)) < 2 THEN FALSE
    ELSE LET if_blocked == branch_blocked(block(this_if_statement)[1], 1)
             else_blocked == IF if_blocked
                             THEN branch_blocked(block(this_if_statement)[2], 1)
                             ELSE FALSE
         IN if_blocked /\ else_blocked

RECURSIVE check_if_while_encountered(_), set_while_unreachable(_), set_if_unreachable(_),
          set_statements_unreachable(_, _)
\* The loop body shared by set_while_unreachable and set_if_unreachable:
\* every statement of block b from i on is logged, and descended into.
set_statements_unreachable(b, i) ==
    IF i > Len(statement(b)) THEN <<>>
    ELSE <<add(statement(b)[i], "UNREACHABLE_STATEMENT")>>
         \o check_if_while_encountered(statement(b)[i])
         \o set_statements_unreachable(b, i + 1)

set_while_unreachable(this_while) ==
    set_statements_unreachable(Append(this_while, 2), 1)

set_if_unreachable(this_if) ==
    Flatten([k \in 1..Len(block(this_if)) |->
                 set_statements_unreachable(block(this_if)[k], 1)])

\* Mutant of check_if_while_encountered: a while statement is not descended into.
check_if_while_encountered_if_only(this_statement) ==
    IF IsKind(this_statement, "If") THEN set_if_unreachable(this_statement)
    ELSE <<>>

check_if_while_encountered(this_statement) ==
    IF IsKind(this_statement, "If") THEN set_if_unreachable(this_statement)
    ELSE IF IsKind(this_statement, "While") THEN set_while_unreachable(this_statement)
    ELSE <<>>

\* Mutant of sets_return_found: any if counts, totally blocked or not.
sets_return_found_any_if(s) == IsKind(s, "Return") \/ IsKind(s, "If")

\* Does statement s end the reachable part of its block (first loop of exitBlock)?
sets_return_found(s) ==
    \/ IsKind(s, "Return")
    \/ IsKind(s, "If") /\ check_if_totalblocked(s)

\* First loop of exitBlock from statement i on: the diagnostics it adds.
RECURSIVE unreachable_scan(_, _, _)
unreachable_scan(b, i, return_found) ==
    IF i > Len(statement(b)) THEN <<>>
    ELSE LET this_statement == statement(b)[i]
         IN IF ~return_found
            THEN unreachable_scan(b, i + 1, sets_return_found(this_statement))
            ELSE <<add(this_statement, "UNREACHABLE_STATEMENT")>>
                 \o check_if_while_encountered(this_statement)
                 \o unreachable_scan(b, i + 1, TRUE)

\* Second loop of exitBlock (there is no break: any statement counts).
fully_blocked(b) ==
    \E i \in 1..Len(statement(b)) :
        \/ IsKind(statement(b)[i], "If") /\ check_if_totalblocked(statement(b)[i])
        \/ IsKind(statement(b)[i], "Return")

\* Mutant of missing_return: the function's TYPE() is not looked at.
missing_return_any_function(b) ==
    IF /\ Len(b) >= 2
       /\ IsKind(Parent(Parent(b)), "FuncDef")
       /\ ~fully_blocked(b)
    THEN <<add(b, "MISSING_RETURN")>>
    ELSE <<>>

\* Second part of exitBlock: the missing-return diagnostic of block b.
missing_return(b) ==
    IF /\ Len(b) >= 2
       /\ IsKind(Parent(Parent(b)), "FuncDef")
       /\ NodeAt(Parent(Parent(b))).ty # NoType
       /\ ~fully_blocked(b)
    THEN <<add(b, "MISSING_RETURN")>>
    ELSE <<>>

exitBlock ==
    /\ Calls(P2, "exit", "Block")
    /\ error_log' = error_log \o unreachable_scan(ctx, 1, FALSE) \o missing_return(ctx)
    /\ Returns
    /\ UNCHANGED <<previous, tree, current_scope, scopes, type_of, crashed>>

-----------------------------------------------------------------------------
(* Variable declarations and statements                                    *)

exitVarDec ==
    /\ Calls(P2, "exit", "VarDec")
    /\ LET r == sub_var_dec(ctx)
           var_primtype == PrimitiveType(NodeAt(ctx).ty)
           this_ID == NodeAt(ctx).text
       IN IF NodeAt(ctx).kids # <<>> /\ type_of[Kids(ctx)[1]] # var_primtype
          THEN /\ scopes' = define(r.scopes, here, this_ID, T_ERROR, FALSE)
               /\ type_of' = MapPut(type_of, ctx, T_ERROR)
               /\ error_log' = Append(r.error_log, add(ctx, "ASSIGN_TO_WRONG_TYPE"))
          ELSE /\ scopes' = IF ~r.error
                            THEN define(r.scopes, here, this_ID, var_primtype, FALSE)
                            ELSE r.scopes
               /\ error_log' = r.error_log
               /\ UNCHANGED type_of
    /\ Returns
    /\ UNCHANGED <<previous, tree, current_scope, crashed>>

exitAssignment ==
    /\ Calls(P2, "exit", "Assignment")
    /\ LET expr_type == type_of[Kids(ctx)[1]]
           symbol == resolve(scopes, here, NodeAt(ctx).text)
       IN error_log' =
              IF symbol = None THEN Append(error_log, add(ctx, "UNDEFINED_NAME"))
              ELSE IF symbol.type # expr_type
              THEN Append(error_log, add(ctx, "ASSIGN_TO_WRONG_TYPE"))
              ELSE error_log
    /\ Returns
    /\ UNCHANGED <<previous, tree, current_scope, scopes, type_of, crashed>>

\* exitWhile and exitIf: the condition is the first child.
condition_errors(c) ==
    IF type_of[Kids(c)[1]] # T_Bool THEN <<add(c, "CONDITION_NOT_BOOL")>> ELSE <<>>

exitWhile ==
    /\ Calls(P2, "exit", "While")
    /\ error_log' = error_log \o condition_errors(ctx)
    /\ Returns
    /\ UNCHANGED <<previous, tree, current_scope, scopes, type_of, crashed>>

exitIf ==
    /\ Calls(P2, "exit", "If")
    /\ error_log' = error_log \o condition_errors(ctx)
    /\ Returns
    /\ UNCHANGED <<previous, tree, current_scope, scopes, type_of, crashed>>

\* Mutant of exitPrint: the diagnostic is located at the printed expression.
exitPrint_at_expression ==
    /\ Calls(P2, "exit", "Print")
    /\ error_log' = IF type_of[Kids(ctx)[1]] = T_ERROR
                    THEN Append(error_log, add(Kids(ctx)[1], "UNPRINTABLE_EXPRESSION"))
                    ELSE error_log
    /\ Returns
    /\ UNCHANGED <<previous, tree, current_scope, scopes, type_of, crashed>>

exitPrint ==
    /\ Calls(P2, "exit", "Print")
    /\ error_log' = IF type_of[Kids(ctx)[1]] = T_ERROR
                    THEN Append(error_log, add(ctx, "UNPRINTABLE_EXPRESSION"))
                    ELSE error_log
    /\ Returns
    /\ UNCHANGED <<previous, tree, current_scope, scopes, type_of, crashed>>

-----------------------------------------------------------------------------
(* Expressions                                                             *)

\* An expression method: annotates the node and logs `errors`.
Annotate(kind, type, errors) ==
    /\ Calls(P2, "exit", kind)
    /\ type_of' = MapPut(type_of, ctx, type)
    /\ error_log' = error_log \o errors
    /\ Returns
    /\ UNCHANGED <<previous, tree, current_scope, scopes, crashed>>

exitIntLiteral == Annotate("IntLiteral", T_Int, <<>>)

\* The type exitNeg infers for the node c.
neg_type(c) ==
    IF NodeAt(c).text = "-" /\ type_of[Kids(c)[1]] = T_Int THEN T_Int
    ELSE IF NodeAt(c).text = "!" /\ type_of[Kids(c)[1]] = T_Bool THEN T_Bool
    ELSE T_ERROR

exitNeg ==
    Annotate("Neg", neg_type(ctx),
             IF neg_type(ctx) = T_ERROR THEN <<add(ctx, "INVALID_NEGATION")>> ELSE <<>>)

\* Mutant of exitParens: the operand's type is passed on without a diagnostic.
exitParens_silent == Annotate("Parens", type_of[Kids(ctx)[1]], <<>>)

exitParens ==
    Annotate("Parens", type_of[Kids(ctx)[1]],
             IF type_of[Kids(ctx)[1]] = T_ERROR
             THEN <<add(ctx, "INVALID_BINARY_OP")>> ELSE <<>>)

\* Mutant of both_int: only the left operand is looked at.
both_int_left_only(c) == type_of[Kids(c)[1]] = T_Int

\* Both operands of the binary node c are Int.
both_int(c) ==
    LET left == type_of[Kids(c)[1]]
        right == type_of[Kids(c)[2]]
    IN left = T_Int /\ right = T_Int

\* exitMulDiv, exitAddSub, exitCompare: `result` when both operands are Int.
binary_op(kind, result) ==
    Annotate(kind, IF both_int(ctx) THEN result ELSE T_ERROR,
             IF both_int(ctx) THEN <<>> ELSE <<add(ctx, "INVALID_BINARY_OP")>>)

exitMulDiv == binary_op("MulDiv", T_Int)

exitAddSub ==
    Annotate("AddSub",
             IF NodeAt(ctx).text \in {"+", "-"} /\ both_int(ctx) THEN T_Int ELSE T_ERROR,
             IF NodeAt(ctx).text \in {"+", "-"} /\ both_int(ctx)
             THEN <<>> ELSE <<add(ctx, "INVALID_BINARY_OP")>>)

exitCompare == binary_op("Compare", T_Bool)

\* The type exitVariable gives the reference c.
variable_type(c) ==
    LET symbol == resolve(scopes, here, NodeAt(c).text)
    IN IF symbol = None \/ symbol.type = T_ERROR THEN T_ERROR ELSE symbol.type

\* Mutant of exitVariable: a name bound to Error is typed Error silently.
exitVariable_silent_on_error ==
    Annotate("Variable", variable_type(ctx),
             IF resolve(scopes, here, NodeAt(ctx).text) = None
             THEN <<add(ctx, "UNDEFINED_NAME")>> ELSE <<>>)

exitVariable ==
    Annotate("Variable", variable_type(ctx),
             IF variable_type(ctx) = T_ERROR
             THEN <<add(ctx, "UNDEFINED_NAME")>> ELSE <<>>)

\* Mutant of exitStringLiteral: the literal is typed Int.
exitStringLiteral_as_int == Annotate("StringLiteral", T_Int, <<>>)

exitStringLiteral == Annotate("StringLiteral", T_String, <<>>)

exitBoolLiteral == Annotate("BoolLiteral", T_Bool, <<>>)

-----------------------------------------------------------------------------
(* Programs: the parse trees the grammar admits, within the bounds         *)

SeqsUpTo(S, n) == UNION {[1..k -> S] : k \in 0..n}

IntLit == Node("IntLiteral", "10", NoType, <<>>)
StrLit == Node("StringLiteral", "s", NoType, <<>>)
BoolLit == Node("BoolLiteral", "true", NoType, <<>>)
Var(id) == Node("Variable", id, NoType, <<>>)
Neg(op, e) == Node("Neg", op, NoType, <<e>>)
Parens(e) == Node("Parens", "", NoType, <<e>>)
Binary(k, a, b) == Node(k[1], k[2], NoType, <<a, b>>)
FuncCall(id, args) == Node("FuncCall", id, NoType, args)
FuncCallExpr(id, args) == Node("FuncCallExpr", "", NoType, <<FuncCall(id, args)>>)

FuncCallStmt(id, args) == Node("FuncCallStmt", "", NoType, <<FuncCall(id, args)>>)
Assignment(id, e) == Node("Assignment", id, NoType, <<e>>)
PrintStmt(e) == Node("Print", "", NoType, <<e>>)
Return(es) == Node("Return", "", NoType, es)
Block(stmts) == Node("Block", "", NoType, stmts)
While(e, stmts) == Node("While", "", NoType, <<e, Block(stmts)>>)
If(e, stmts) == Node("If", "", NoType, <<e, Block(stmts)>>)
IfElse(e, stmts, others) == Node("If", "", NoType, <<e, Block(stmts), Block(others)>>)

VarDec(id, ty, es) == Node("VarDec", id, ty, es)
ParameterDef(id, ty) == Node("ParameterDef", id, ty, <<>>)
Body(decs, stmts) ==
    Node("Body", "", NoType, <<Node("VarBlock", "", NoType, decs), Block(stmts)>>)
FuncDef(id, params, ty, body) == Node("FuncDef", id, ty, Append(params, body))
Script(funcs, decs, stmts) ==
    Node("Script", "", NoType,
         Append(funcs, Node("Main", "", NoType, <<Body(decs, stmts)>>)))

\* Names: x is a variable, f a function, u is declared nowhere.
Atoms == {IntLit, StrLit, BoolLit, Var("x"), Var("f"), Var("u")}
RightOperands == {IntLit, BoolLit, Var("u")}
BinaryOps == {<<"MulDiv", "*">>, <<"AddSub", "+">>, <<"AddSub", "-">>, <<"Compare", "<">>}

RECURSIVE Exprs(_)
Exprs(depth) ==
    IF depth <= 1 THEN Atoms
    ELSE LET E == Exprs(depth - 1)
         IN Atoms \cup {Neg("-", e) : e \in E} \cup {Neg("!", e) : e \in E}
                  \cup {Parens(e) : e \in E}
                  \cup {Binary(k, a, b) : k \in BinaryOps, a \in E, b \in RightOperands}

EmptyFunc(id) == FuncDef(id, <<>>, NoType, Body(<<>>, <<>>))
DecX == VarDec("x", "Int", <<>>)
ParamNames == <<"a", "b", "c", "d">>
Params(tys) == [i \in 1..Len(tys) |-> ParameterDef(ParamNames[i], tys[i])]

\* print e, for every expression.
ExprPrograms ==
    {Script(<<EmptyFunc("f")>>, <<DecX>>, <<PrintStmt(e)>>) : e \in Exprs(MaxExprDepth)}

\* The other consumers of an expression.
ConsumerPrograms ==
    LET E == Exprs(MaxExprDepth - 1)
        h == FuncDef("h", Params(<<"Int">>), NoType, Body(<<>>, <<>>))
    IN {Script(<<EmptyFunc("f"), h>>, <<DecX>>, <<s>>) :
            s \in {Assignment("x", e) : e \in E} \cup {Assignment("u", e) : e \in E}
                  \cup {If(e, <<>>) : e \in E} \cup {While(e, <<>>) : e \in E}
                  \cup {FuncCallStmt("h", <<e>>) : e \in E}}
       \cup {Script(<<EmptyFunc("f")>>, <<DecX, VarDec("y", ty, <<e>>)>>,
                    <<PrintStmt(Var("y"))>>) : ty \in {"Int", "Bool"}, e \in E}
       \cup {Script(<<EmptyFunc("f")>>, <<VarDec("x", "Bool", <<IntLit>>)>>,
                    <<Assignment("x", e)>>) : e \in E}

\* A call of f against every signature of f, as a statement and as an expression.
CallPrograms ==
    LET A == SeqsUpTo({IntLit, StrLit}, MaxArgs)
        T == SeqsUpTo({"Int", "String"}, MaxParams)
        Uses(id, args) == {<<FuncCallStmt(id, args)>>, <<PrintStmt(FuncCallExpr(id, args))>>}
    IN {Script(<<FuncDef("f", Params(tys), ty, Body(<<>>, <<>>))>>, <<DecX>>, stmts) :
            tys \in T, ty \in {NoType, "Int"}, stmts \in UNION {Uses("f", args) : args \in A}}
       \cup {Script(<<FuncDef("f", <<>>, ty, Body(<<>>, <<>>))>>, <<DecX>>, stmts) :
                ty \in {"Bool", "String"}, stmts \in Uses("f", <<>>)}
       \cup {Script(<<EmptyFunc("f")>>, <<DecX>>, stmts) :
                stmts \in UNION {Uses(id, args) : id \in {"u", "x"}, args \in A}}
       \cup {Script(<<EmptyFunc("f")>>, <<VarDec("f", "Int", <<>>)>>, stmts) :
                stmts \in Uses("f", <<>>)}
       \cup {Script(<<FuncDef("g", <<ParameterDef("x", "Int")>>, NoType,
                              Body(<<>>, stmts))>>, <<>>, <<>>) :
                stmts \in Uses("x", <<>>) \cup Uses("g", <<Var("x")>>)}

\* Variable blocks, in main and in a function with a parameter x.
DecOptions ==
    {VarDec(id, d[1], d[2]) :
        id \in {"x", "f"},
        d \in {<<"Int", <<>>>>, <<"Int", <<IntLit>>>>, <<"Bool", <<IntLit>>>>,
               <<"Int", <<Var("x")>>>>}}

DecPrograms ==
    LET D == SeqsUpTo(DecOptions, MaxDecs)
        use == <<PrintStmt(Binary(<<"Compare", "<">>, Var("x"), Var("f")))>>
    IN {Script(<<EmptyFunc("f")>>, decs, use) : decs \in D}
       \cup {Script(<<EmptyFunc("f"),
                      FuncDef("g", <<ParameterDef("x", "Int")>>, NoType, Body(decs, use))>>,
                    <<>>, <<>>) : decs \in D}

ParamPrograms ==
    LET Ps == SeqsUpTo({ParameterDef("x", "Int"), ParameterDef("x", "Bool"),
                        ParameterDef("f", "Int")}, MaxParams)
    IN {Script(<<EmptyFunc("f"),
                 FuncDef("g", ps, NoType, Body(<<>>, <<PrintStmt(Var("x"))>>))>>,
               <<>>, <<PrintStmt(Var("x"))>>) : ps \in Ps}

\* return, with and without an expression, in main and in functions.
ReturnPrograms ==
    LET Rs == {Return(<<>>)} \cup {Return(<<e>>) : e \in Atoms}
    IN {Script(<<FuncDef("f", <<>>, ty, Body(<<DecX>>, <<r>>))>>, <<>>, <<>>) :
            ty \in {NoType, "Int", "Bool", "String"}, r \in Rs}
       \cup {Script(<<EmptyFunc("f")>>, <<DecX>>, <<r>>) : r \in Rs}

\* Two definitions of the same function name.
DupFuncPrograms ==
    {Script(<<FuncDef("f", Params(<<"Int">>), ty1, Body(<<>>, <<Return(<<IntLit>>)>>)),
              FuncDef("f", ps, ty2, Body(<<>>, <<Return(<<IntLit>>)>>))>>,
            <<>>, <<PrintStmt(FuncCallExpr("f", <<IntLit>>))>>) :
        ps \in {<<>>, Params(<<"Int">>), Params(<<"Bool">>)},
        ty1 \in {NoType, "Int"}, ty2 \in {NoType, "Int", "Bool"}}
    \cup {Script(<<FuncDef("f", Params(<<"Int">>), NoType, Body(<<DecX>>, <<>>)),
                   FuncDef("f", <<>>, NoType, Body(decs, <<PrintStmt(Var(id))>>))>>,
                 <<>>, <<PrintStmt(Var(id))>>) :
             decs \in {<<>>, <<DecX>>}, id \in {"a", "x"}}

\* The name x declared, or not, in two functions and in main, and used in each.
SiblingPrograms ==
    LET D == {<<>>, <<DecX>>}
        use == <<PrintStmt(Var("x"))>>
    IN {Script(<<FuncDef("g", ps, NoType, Body(d1, use)),
                 FuncDef("h", <<>>, NoType, Body(d2, use))>>, d3, use) :
            ps \in {<<>>, <<ParameterDef("x", "Int")>>}, d1 \in D, d2 \in D, d3 \in D}

\* Statement blocks.
P == PrintStmt(StrLit)
R == Return(<<>>)

TopStmts ==
    {P, R, While(BoolLit, <<R, P>>), If(BoolLit, <<R>>),
     IfElse(BoolLit, <<R>>, <<R>>), IfElse(BoolLit, <<R>>, <<P>>)}

Branches == {<<>>, <<P>>, <<R>>, <<R, P>>, <<P, R>>}

NestedBranches ==
    Branches \cup {<<While(BoolLit, <<R>>)>>, <<If(BoolLit, <<R>>)>>}
             \cup {<<IfElse(BoolLit, b1, b2)>> : b1 \in {<<P>>, <<R>>}, b2 \in {<<P>>, <<R>>}}

IntFunc(stmts) == Script(<<FuncDef("f", <<>>, "Int", Body(<<>>, stmts))>>, <<>>, <<>>)

BlockPrograms ==
    {IntFunc(stmts) : stmts \in SeqsUpTo(TopStmts, MaxStmts)}
    \cup {IntFunc(<<IfElse(BoolLit, b1, b2), P>>) : b1 \in NestedBranches, b2 \in NestedBranches}
    \cup {IntFunc(<<R, s>>) :
            s \in {While(BoolLit, b) : b \in NestedBranches}
                  \cup {If(BoolLit, b) : b \in NestedBranches}}
    \cup {IntFunc(<<R, s>>) :
            s \in UNION {{PrintStmt(e), If(e, <<PrintStmt(e)>>), While(e, <<P>>)} :
                            e \in Exprs(MaxExprDepth - 1)}}
    \cup {Script(<<FuncDef("f", <<>>, NoType, Body(<<>>, <<IfElse(BoolLit, b1, b2), P>>))>>,
                 <<>>, <<IfElse(BoolLit, b1, b2), P>>) : b1 \in Branches, b2 \in Branches}

Programs ==
    ExprPrograms \cup ConsumerPrograms \cup CallPrograms \cup DecPrograms \cup ParamPrograms
    \cup ReturnPrograms \cup DupFuncPrograms \cup SiblingPrograms \cup BlockPrograms

-----------------------------------------------------------------------------
(* The analysis: both listeners walked over the tree, with a fresh global  *)
(* scope, a fresh `types` dictionary and a fresh error log.                *)

Init ==
    /\ tree \in Programs
    /\ walk = Callbacks(P1, tree) \o Callbacks(P2, tree)
    /\ current_scope = [l \in {P1, P2} |-> 1]
    /\ scopes = <<Scope("$global", T_Void, NoScope)>>
    /\ type_of = EmptyMap
    /\ error_log = <<>>
    /\ crashed = FALSE
    /\ previous = <<>>

Next ==
    \/ DefineScopesAndSymbols_enterMain
    \/ DefineScopesAndSymbols_exitMain
    \/ DefineScopesAndSymbols_enterFuncDef
    \/ enterFuncDef
    \/ exitFuncDef
    \/ exitParameterDef
    \/ exitReturn
    \/ exitFuncCall
    \/ exitFuncCallExpr
    \/ exitFuncCallStmt
    \/ exitScript
    \/ enterMain
    \/ exitMain
    \/ exitBody
    \/ exitVarBlock
    \/ exitBlock
    \/ exitVarDec
    \/ exitAssignment
    \/ exitWhile
    \/ exitIf
    \/ exitPrint
    \/ exitIntLiteral
    \/ exitNeg
    \/ exitParens
    \/ exitMulDiv
    \/ exitAddSub
    \/ exitCompare
    \/ exitVariable
    \/ exitStringLiteral
    \/ exitBoolLiteral

Spec == Init /\ [][Next]_vars

\* The walks are over, or an exception ended them.
finished == walk = <<>> \/ crashed

\* Mutant of analyse_again: the second analysis is handed the first one's log.
analyse_again_same_log ==
    /\ finished
    /\ previous = <<>>
    /\ previous' = <<[error_log |-> error_log, type_of |-> type_of]>>
    /\ walk' = Callbacks(P1, tree) \o Callbacks(P2, tree)
    /\ current_scope' = [l \in {P1, P2} |-> 1]
    /\ scopes' = <<Scope("$global", T_Void, NoScope)>>
    /\ type_of' = EmptyMap
    /\ crashed' = FALSE
    /\ UNCHANGED <<tree, error_log>>

\* The same tree analysed once more: both listeners are constructed again,
\* on a fresh global scope, a fresh `types` dictionary and a fresh error log.
analyse_again ==
    /\ finished
    /\ previous = <<>>
    /\ previous' = <<[error_log |-> error_log, type_of |-> type_of]>>
    /\ walk' = Callbacks(P1, tree) \o Callbacks(P2, tree)
    /\ current_scope' = [l \in {P1, P2} |-> 1]
    /\ scopes' = <<Scope("$global", T_Void, NoScope)>>
    /\ type_of' = EmptyMap
    /\ error_log' = <<>>
    /\ crashed' = FALSE
    /\ UNCHANGED tree

NextTwice == Next \/ analyse_again

SpecTwice == Init /\ [][NextTwice]_vars

-----------------------------------------------------------------------------
(* Vocabulary of the properties                                            *)

\* The diagnostics a step adds to the log.
Logged == SubSeq(error_log', Len(error_log) + 1, Len(error_log'))

\* The diagnostics of a category among a sequence of diagnostics.
Of(category, log) == SelectSeq(log, LAMBDA e : e.category = category)

\* The diagnostics located at node p among a sequence of diagnostics.
At(p, log) == SelectSeq(log, LAMBDA e : e.ctx = p)

InLog(p, category) == \E i \in 1..Len(error_log) : error_log[i] = add(p, category)

\* The second listener is about to leave a node of this kind.
Exiting(kind) == Calls(P2, "exit", kind)

\* The second listener has left node p.
Visited(p) ==
    \A i \in 1..Len(walk) :
        ~(walk[i].listener = P2 /\ walk[i].phase = "exit" /\ walk[i].ctx = p)

\* The paths of the nodes of the subtree n found at path p.
RECURSIVE Paths(_, _)
Paths(n, p) == {p} \cup UNION {Paths(n.kids[i], Append(p, i)) : i \in 1..Len(n.kids)}

Nodes == Paths(tree, <<>>)

ExprKinds ==
    {"IntLiteral", "StringLiteral", "BoolLiteral", "Variable", "Neg", "Parens", "MulDiv",
     "AddSub", "Compare", "FuncCallExpr"}

\* Node n lies in the subtree of node p.
Under(p, n) == Len(n) >= Len(p) /\ SubSeq(n, 1, Len(p)) = p

\* The function definition or main that contains node p.
Unit(p) == NodeAt(<<p[1]>>)

\* The last definition of the function id in the script.
LastDef(id) ==
    LET defs == {i \in 1..Len(tree.kids) :
                    tree.kids[i].kind = "FuncDef" /\ tree.kids[i].text = id}
    IN tree.kids[CHOOSE i \in defs : \A j \in defs : j <= i]

DefinedOnce(id) ==
    Cardinality({i \in 1..Len(tree.kids) :
                    tree.kids[i].kind = "FuncDef" /\ tree.kids[i].text = id}) = 1

DeclaredType(node) == IF node.ty = NoType THEN T_Void ELSE PrimitiveType(node.ty)

\* A fully terminating if: it has an else branch and each branch holds,
\* among its own statements, a return or a fully terminating if.
RECURSIVE FullyTerminating(_)
FullyTerminating(s) ==
    /\ IsKind(s, "If")
    /\ Len(NodeAt(s).kids) = 3
    /\ \A b \in {Append(s, 2), Append(s, 3)} :
           \E i \in 1..Len(NodeAt(b).kids) :
               IsKind(Append(b, i), "Return") \/ FullyTerminating(Append(b, i))

Terminates(s) == IsKind(s, "Return") \/ FullyTerminating(s)

-----------------------------------------------------------------------------
(* C1 *)

\* The callee of call c is a function with more parameters than c has
\* arguments, and every argument has the type of its parameter.
FewerArguments(c) ==
    LET f == resolve(scopes, here, NodeAt(c).text)
    IN /\ f.type.cls = "FunctionType"
       /\ Len(Kids(c)) < Len(f.type.parameter_types)
       /\ \A i \in 1..Len(Kids(c)) :
              type_of[Kids(c)[i]] = PrimitiveType(f.type.parameter_types[i])

-----------------------------------------------------------------------------
(* C2 *)

\* C2: no listener method aborts: for every program both walks run on,
\* whatever the callee name of a call resolves to.
C2_NoAbortingError == ~crashed

-----------------------------------------------------------------------------
(* C3 *)

\* C3: every value of the type annotation map is a PrimitiveType, never a
\* FunctionType.
C3_AnnotationsArePrimitive ==
    \A p \in DOMAIN type_of : type_of[p].cls = "PrimitiveType"

-----------------------------------------------------------------------------
(* C4 *)

Declarations == {"VarDec", "ParameterDef"}

\* The name declared at c already resolves from the current scope.
Redeclares(c) == resolve(scopes, here, NodeAt(c).text) # None

\* A declaration of the name of node v, in the function or main that holds
\* v, has been reported as a duplicate.
DuplicateDeclared(v) ==
    \E d \in Nodes :
        /\ NodeAt(d).kind \in Declarations
        /\ NodeAt(d).text = NodeAt(v).text
        /\ d[1] = v[1]
        /\ InLog(d, "DUPLICATE_NAME")

\* C4: a variable or parameter declaration of a name that already resolves
\* from the current scope logs exactly one DuplicateName, against that
\* declaration, and leaves the name bound to Error in the current scope;
\* every reference to the name visited after it in that scope is typed Error.
C4_DuplicateNameBindsError ==
    [][/\ (Exiting("VarDec") \/ Exiting("ParameterDef")) /\ Redeclares(ctx)
          => /\ Of("DUPLICATE_NAME", Logged) = <<add(ctx, "DUPLICATE_NAME")>>
             /\ NodeAt(ctx).text \in DOMAIN scopes'[here].symbols
             /\ scopes'[here].symbols[NodeAt(ctx).text].type = T_ERROR
       /\ ~(Exiting("VarDec") \/ Exiting("ParameterDef"))
          => Of("DUPLICATE_NAME", Logged) = <<>>
       /\ Exiting("Variable") /\ DuplicateDeclared(ctx)
          => ctx \in DOMAIN type_of' /\ type_of'[ctx] = T_ERROR]_vars

\* A reference to a name of prior type Int, typed Error after the duplicate.
C4_Witness ==
    \E v \in DOMAIN type_of :
        /\ IsKind(v, "Variable")
        /\ NodeAt(v).text = "x"
        /\ DuplicateDeclared(v)
        /\ type_of[v] = T_ERROR

-----------------------------------------------------------------------------
(* C5 *)

-----------------------------------------------------------------------------
(* C6 *)

\* Block b is the body block of a function that declares a return type, and
\* none of its own statements is a return or a fully terminating if.
LacksReturn(b) ==
    /\ Len(b) = 3
    /\ Unit(b).kind = "FuncDef"
    /\ Unit(b).ty # NoType
    /\ \A i \in 1..Len(Kids(b)) : ~Terminates(Kids(b)[i])

-----------------------------------------------------------------------------
(* C7 *)

\* C7: when a block is left, UnreachableStatement is logged against a
\* statement of that block, once, iff an earlier statement of the block is
\* a return or a fully terminating if.
C7_UnreachableAfterTerminator ==
    [][Exiting("Block")
       => \A i \in 1..Len(Kids(ctx)) :
              At(Kids(ctx)[i], Of("UNREACHABLE_STATEMENT", Logged))
              = IF \E j \in 1..(i - 1) : Terminates(Kids(ctx)[j])
                THEN <<add(Kids(ctx)[i], "UNREACHABLE_STATEMENT")>> ELSE <<>>]_vars

\* A block left with: an if that is not fully terminating, a fully
\* terminating if, a further statement.  Only the last one is logged.
C7_Witness ==
    \E b \in Nodes :
        /\ IsKind(b, "Block") /\ Visited(b)
        /\ Len(Kids(b)) = 3
        /\ IsKind(Kids(b)[1], "If") /\ ~FullyTerminating(Kids(b)[1])
        /\ FullyTerminating(Kids(b)[2])
        /\ ~InLog(Kids(b)[1], "UNREACHABLE_STATEMENT")
        /\ ~InLog(Kids(b)[2], "UNREACHABLE_STATEMENT")
        /\ InLog(Kids(b)[3], "UNREACHABLE_STATEMENT")

-----------------------------------------------------------------------------
(* C8 *)

Annotated(n, type) == n \in DOMAIN type_of /\ type_of[n] = type

\* Node n has been type-checked: it has its annotation, and its type
\* diagnostic is in the log exactly when its rule fails.
TypeChecked(n) ==
    LET kind == NodeAt(n).kind
        operand == Append(n, 1)
    IN /\ kind \in ExprKinds \cup {"FuncCall"} => n \in DOMAIN type_of
       /\ kind = "StringLiteral" => Annotated(n, T_String)
       /\ kind = "IntLiteral" => Annotated(n, T_Int)
       /\ kind = "BoolLiteral" => Annotated(n, T_Bool)
       /\ kind = "Print"
          => (InLog(n, "UNPRINTABLE_EXPRESSION") <=> Annotated(operand, T_ERROR))
       /\ kind \in {"If", "While"}
          => (InLog(n, "CONDITION_NOT_BOOL") <=> ~Annotated(operand, T_Bool))
       /\ kind = "Variable" => (InLog(n, "UNDEFINED_NAME") <=> Annotated(n, T_ERROR))
       /\ kind = "Neg" => (InLog(n, "INVALID_NEGATION") <=> Annotated(n, T_ERROR))
       /\ kind \in {"MulDiv", "AddSub", "Compare"}
          => (InLog(n, "INVALID_BINARY_OP") <=> Annotated(n, T_ERROR))

\* C8: a statement logged as UnreachableStatement is type-checked all the
\* same: every expression in it has its annotation (a string literal is
\* typed String) and its type diagnostics are in the log.
C8_UnreachableStillChecked ==
    \A k \in 1..Len(error_log) :
        error_log[k].category = "UNREACHABLE_STATEMENT"
        => \A n \in Paths(NodeAt(error_log[k].ctx), error_log[k].ctx) : TypeChecked(n)

\* `return; print "s"`: the print is logged unreachable, its literal is a String.
C8_Witness ==
    \E s \in Nodes :
        /\ IsKind(s, "Print")
        /\ InLog(s, "UNREACHABLE_STATEMENT")
        /\ IsKind(Append(s, 1), "StringLiteral")
        /\ Annotated(Append(s, 1), T_String)

-----------------------------------------------------------------------------
(* C9 *)

DeclaredParams(def) == [i \in 1..(Len(def.kids) - 1) |-> PrimitiveType(def.kids[i].ty)]

\* Some argument of call c, paired by position with the parameters of the
\* definition def, has another type than its parameter.
Mismatch(c, def) ==
    \E i \in 1..Len(Kids(c)) :
        /\ i <= Len(DeclaredParams(def))
        /\ type_of[Kids(c)[i]] # DeclaredParams(def)[i]

\* C9: a call whose callee resolves to a function logs exactly one
\* InvalidCall and is typed Error iff some positionally paired argument type
\* differs from its parameter type; otherwise it logs nothing and is typed
\* with the callee's declared return type.  A call whose callee does not
\* resolve logs exactly one InvalidCall and is typed Error.
C9_CallChecked ==
    [][Exiting("FuncCall")
       => LET f == resolve(scopes, here, NodeAt(ctx).text)
              def == LastDef(NodeAt(ctx).text)
          IN /\ f = None
                => /\ Logged = <<add(ctx, "INVALID_CALL")>>
                   /\ type_of' = MapPut(type_of, ctx, T_ERROR)
             /\ f.type.cls = "FunctionType"
                => IF Mismatch(ctx, def)
                   THEN /\ Logged = <<add(ctx, "INVALID_CALL")>>
                        /\ type_of' = MapPut(type_of, ctx, T_ERROR)
                   ELSE /\ Logged = <<>>
                        /\ type_of' = MapPut(type_of, ctx, DeclaredType(def))]_vars

\* A call with two arguments, both of the wrong type: one InvalidCall.
C9_Witness ==
    \E c \in DOMAIN type_of :
        /\ IsKind(c, "FuncCall")
        /\ resolve(scopes, here, NodeAt(c).text).type.cls = "FunctionType"
        /\ Len(Kids(c)) = 2
        /\ Len(DeclaredParams(LastDef(NodeAt(c).text))) = 2
        /\ \A i \in 1..2 : type_of[Kids(c)[i]] # DeclaredParams(LastDef(NodeAt(c).text))[i]
        /\ type_of[c] = T_ERROR
        /\ At(c, error_log) = <<add(c, "INVALID_CALL")>>

-----------------------------------------------------------------------------
(* C10 *)

\* C10: a function call used as an expression whose call is typed Void logs
\* exactly one InvalidCall against the expression node, which is typed
\* Error; for any other call type the expression takes the call's type and
\* nothing is logged.  A call used as a statement logs nothing.
C10_VoidCallAsExpression ==
    [][/\ Exiting("FuncCallExpr")
          => LET _type == type_of[Kids(ctx)[1]]
             IN IF _type = T_Void
                THEN /\ Logged = <<add(ctx, "INVALID_CALL")>>
                     /\ type_of' = MapPut(type_of, ctx, T_ERROR)
                ELSE /\ Logged = <<>>
                     /\ type_of' = MapPut(type_of, ctx, _type)
       /\ Exiting("FuncCallStmt") => Logged = <<>> /\ type_of' = type_of]_vars

\* A Void call used as an expression: the call is Void, the expression Error.
C10_Witness ==
    \E e \in DOMAIN type_of :
        /\ IsKind(e, "FuncCallExpr")
        /\ Annotated(Append(e, 1), T_Void)
        /\ type_of[e] = T_ERROR
        /\ error_log = <<add(e, "INVALID_CALL")>>

-----------------------------------------------------------------------------
(* C11 *)

\* Declaration d and node v lie in main, or in definitions of one function name.
SameUnit(d, v) == Unit(d).kind = Unit(v).kind /\ Unit(d).text = Unit(v).text

\* The name of reference v is the name of a function of the script, or of a
\* declaration already visited in the function or main that holds v.
Bound(v) ==
    \/ \E i \in 1..Len(tree.kids) :
           tree.kids[i].kind = "FuncDef" /\ tree.kids[i].text = NodeAt(v).text
    \/ \E d \in Nodes :
           /\ NodeAt(d).kind \in Declarations
           /\ NodeAt(d).text = NodeAt(v).text
           /\ SameUnit(d, v)
           /\ Visited(d)

\* A declaration of the name of v, visited in the function or main that
\* holds v, failed with DuplicateName or AssignToWrongType.
FailedDeclaration(v) ==
    \E d \in Nodes :
        /\ NodeAt(d).kind \in Declarations
        /\ NodeAt(d).text = NodeAt(v).text
        /\ SameUnit(d, v)
        /\ Visited(d)
        /\ InLog(d, "DUPLICATE_NAME") \/ InLog(d, "ASSIGN_TO_WRONG_TYPE")

\* C11: a variable reference is typed Error and logs exactly one
\* UndefinedName iff its name does not resolve from the current scope or
\* resolves to a symbol bound to Error, which a failed declaration
\* (AssignToWrongType or DuplicateName) left; otherwise it logs nothing and
\* takes the resolved symbol's type.  A reference visited before any
\* declaration of its name (in an earlier declaration's initializer, in the
\* declaration's own initializer) does not resolve.
C11_VariableReference ==
    [][Exiting("Variable")
       => LET symbol == resolve(scopes, here, NodeAt(ctx).text)
          IN /\ IF symbol = None \/ symbol.type = T_ERROR
                THEN /\ Logged = <<add(ctx, "UNDEFINED_NAME")>>
                     /\ type_of' = MapPut(type_of, ctx, T_ERROR)
                ELSE /\ Logged = <<>>
                     /\ type_of' = MapPut(type_of, ctx, symbol.type)
             /\ symbol.type = T_ERROR => FailedDeclaration(ctx)
             /\ ~Bound(ctx) => symbol = None]_vars

\* `var x : Int = x` in main: the reference in the declaration's own
\* initializer is typed Error and logged once.
C11_Witness ==
    \E v \in DOMAIN type_of :
        /\ IsKind(v, "Variable")
        /\ IsKind(Parent(v), "VarDec")
        /\ NodeAt(Parent(v)).text = NodeAt(v).text
        /\ Unit(v).kind = "Main"
        /\ type_of[v] = T_ERROR
        /\ At(v, error_log) = <<add(v, "UNDEFINED_NAME")>>

-----------------------------------------------------------------------------
(* C12 *)

BinaryKinds == {"MulDiv", "AddSub", "Compare"}

\* C12: every `*`, `/`, `+`, binary `-` and comparison node whose operands
\* are both typed Int is typed Int (Bool for a comparison) and logs nothing;
\* if either operand has another type (String, Bool, Error, ...) the node is
\* typed Error and exactly one InvalidBinaryOp is logged against it.
C12_BinaryOperands ==
    [][\A kind \in BinaryKinds :
          Exiting(kind)
          => LET left == type_of[Kids(ctx)[1]]
                 right == type_of[Kids(ctx)[2]]
             IN IF left = T_Int /\ right = T_Int
                THEN /\ Logged = <<>>
                     /\ type_of' = MapPut(type_of, ctx,
                                          IF kind = "Compare" THEN T_Bool ELSE T_Int)
                ELSE /\ Logged = <<add(ctx, "INVALID_BINARY_OP")>>
                     /\ type_of' = MapPut(type_of, ctx, T_ERROR)]_vars

\* An Int on the left and a Bool on the right: Error, one InvalidBinaryOp.
C12_Witness ==
    \E n \in DOMAIN type_of :
        /\ NodeAt(n).kind \in BinaryKinds
        /\ Annotated(Append(n, 1), T_Int)
        /\ Annotated(Append(n, 2), T_Bool)
        /\ type_of[n] = T_ERROR
        /\ At(n, error_log) = <<add(n, "INVALID_BINARY_OP")>>

-----------------------------------------------------------------------------
(* C13 *)

-----------------------------------------------------------------------------
(* C14 *)

\* The first listener has walked the tree.
PassOneDone == walk = <<>> \/ Head(walk).listener = P2

\* The scope the first listener creates for the k-th definition of the
\* script: the definitions come first and are visited in order, and $global
\* is scope 1.
OwnScope(k) == k + 1

\* C14: after Pass 1 every function definition has its own child scope of
\* $global, named after the function, whose returnType is the definition's
\* declared return type (Void if none); Pass 2 binds the parameters and
\* local variables of each definition in that definition's own scope.  This
\* is for every program, two functions of one name included.
C14_OwnScopePerDefinition ==
    \A k \in 1..Len(tree.kids) :
        tree.kids[k].kind = "FuncDef"
        => /\ PassOneDone
              => /\ OwnScope(k) \in 1..Len(scopes)
                 /\ scopes[OwnScope(k)].name = tree.kids[k].text
                 /\ scopes[OwnScope(k)].return_type = DeclaredType(tree.kids[k])
                 /\ scopes[OwnScope(k)].enclosing_scope = 1
           /\ \A d \in Paths(tree.kids[k], <<k>>) :
                  NodeAt(d).kind \in Declarations /\ Visited(d)
                  => NodeAt(d).text \in DOMAIN scopes[OwnScope(k)].symbols

-----------------------------------------------------------------------------
(* C15 *)

\* The name of node v is the name of a function of the script.
NamesFunction(v) ==
    \E i \in 1..Len(tree.kids) :
        tree.kids[i].kind = "FuncDef" /\ tree.kids[i].text = NodeAt(v).text

\* A declaration of the name of node v has been visited in the very
\* function definition, or main, that holds v.
DeclaredHere(v) ==
    \E d \in Nodes :
        /\ NodeAt(d).kind \in Declarations
        /\ NodeAt(d).text = NodeAt(v).text
        /\ d[1] = v[1]
        /\ Visited(d)

\* C15: function scopes and $main are siblings under $global.  A reference
\* to a variable name that only other functions, or main, declare is typed
\* Error and logs UndefinedName; a declaration of a variable name that only
\* other functions, or main, declare logs no DuplicateName.
C15_SiblingScopes ==
    [][/\ Exiting("Variable") /\ ~NamesFunction(ctx) /\ ~DeclaredHere(ctx)
          => /\ Logged = <<add(ctx, "UNDEFINED_NAME")>>
             /\ type_of' = MapPut(type_of, ctx, T_ERROR)
       /\ (Exiting("VarDec") \/ Exiting("ParameterDef"))
          /\ ~NamesFunction(ctx) /\ ~DeclaredHere(ctx)
          => Of("DUPLICATE_NAME", Logged) = <<>>]_vars

-----------------------------------------------------------------------------
(* C16 *)

\* C16: a variable declaration whose name already resolves from the current
\* scope logs DuplicateName only and skips every further check: whatever the
\* type of its initializer, no AssignToWrongType is logged for it and the
\* declaration node is not annotated.
C16_DuplicateSkipsChecks ==
    [][Exiting("VarDec") /\ Redeclares(ctx)
       => /\ Logged = <<add(ctx, "DUPLICATE_NAME")>>
          /\ type_of' = type_of]_vars

-----------------------------------------------------------------------------
(* C17 *)

\* C17: check_if_totalblocked is true of an if statement iff it has an else
\* branch and each of its two branch blocks holds, among its immediate
\* statements, a return or a nested if of which check_if_totalblocked is
\* true.  A while never counts, whatever its body holds, and the statements
\* after the first hit of a branch do not matter.  The recursion ends on
\* every tree.
C17_TotallyBlocked ==
    \A s \in Nodes :
        IsKind(s, "If") => (check_if_totalblocked(s) <=> FullyTerminating(s))

\* A block was left that holds an if whose first branch is `while c { return }`
\* and whose else branch returns, then a further statement: the if is not
\* totally blocked and the statement after it is not logged.
C17_Witness ==
    \E s \in Nodes :
        /\ IsKind(s, "If") /\ Len(NodeAt(s).kids) = 3
        /\ Visited(Parent(s))
        /\ Len(Kids(Append(s, 2))) = 1
        /\ IsKind(Append(Append(s, 2), 1), "While")
        /\ IsKind(Append(Append(Append(Append(s, 2), 1), 2), 1), "Return")
        /\ \E i \in 1..Len(Kids(Append(s, 3))) : IsKind(Kids(Append(s, 3))[i], "Return")
        /\ ~check_if_totalblocked(s)
        /\ Len(Kids(Parent(s))) = 2
        /\ ~InLog(Kids(Parent(s))[2], "UNREACHABLE_STATEMENT")

-----------------------------------------------------------------------------
(* C18 *)

ScopeNodes == {"FuncDef", "Main"}

\* The name of the scope of the function definition or main node u.
ScopeName(u) == IF u.kind = "Main" THEN "$main" ELSE u.text

\* Where the cursor of each listener is, given the callback the walker makes next.
CursorInPlace ==
    /\ \A l \in {P1, P2} :
           /\ walk # <<>> /\ Head(walk).listener = l /\ Head(walk).phase = "enter"
              /\ NodeAt(ctx).kind \in ScopeNodes
              => current_scope[l] = 1
           /\ (\A i \in 1..Len(walk) : walk[i].listener # l) => current_scope[l] = 1
    /\ scopes[1].name = "$global"
    /\ walk # <<>> /\ Head(walk).listener = P2 /\ Head(walk).phase = "exit" /\ ctx # <<>>
       => /\ scopes[here].name = ScopeName(Unit(ctx))
          /\ scopes[here].enclosing_scope = 1
          /\ here = child_scope_named(scopes, 1, ScopeName(Unit(ctx)))

\* C18: in both passes the current-scope cursor is $global whenever a
\* function definition or the main block is entered and once the pass has
\* finished; in Pass 2 it is the child scope of $global named after the
\* function at every node visited between the function's enter and exit, and
\* $main between main's enter and exit.  Only entering and leaving a function
\* definition or main moves a cursor: if and while blocks never do.
C18_ScopeCursor ==
    [][/\ CursorInPlace
       /\ CursorInPlace'
       /\ NodeAt(ctx).kind \notin ScopeNodes => UNCHANGED current_scope]_vars

\* Pass 2 is about to leave a statement of an if block inside a function:
\* the cursor is the function's scope.
C18_Witness ==
    /\ walk # <<>>
    /\ Head(walk).listener = P2
    /\ Len(ctx) >= 6
    /\ Unit(ctx).kind = "FuncDef"
    /\ IsKind(Parent(Parent(ctx)), "If")
    /\ here # 1
    /\ scopes[here].name = Unit(ctx).text

-----------------------------------------------------------------------------
(* C19 *)

\* The walker leaves node p no later than node q: p is q, p lies under q,
\* or p lies in an earlier subtree than q.
RECURSIVE ExitsNoLater(_, _)
ExitsNoLater(p, q) ==
    IF q = <<>> THEN TRUE
    ELSE IF p = <<>> THEN FALSE
    ELSE IF Head(p) = Head(q) THEN ExitsNoLater(Tail(p), Tail(q))
    ELSE Head(p) < Head(q)

\* C19, as claimed: the diagnostics log is ordered by the post-order
\* position of the diagnostics' location nodes, UnreachableStatement
\* diagnostics included: whenever d1 precedes d2 in the log, the node of d1 is
\* left no later than the node of d2.
C19_LogInPostOrderOfLocations ==
    \A i, j \in 1..Len(error_log) :
        i < j => ExitsNoLater(error_log[i].ctx, error_log[j].ctx)

\* The log in which the diagnostics other than UnreachableStatement are
\* ordered by the post-order position of their locations.
OthersInPostOrder(log) ==
    \A i, j \in 1..Len(log) :
        /\ i < j
        /\ log[i].category # "UNREACHABLE_STATEMENT"
        /\ log[j].category # "UNREACHABLE_STATEMENT"
        => ExitsNoLater(log[i].ctx, log[j].ctx)

\* C19, amended: the log only grows, at its end, when Pass 2 leaves a node,
\* so it is ordered by the post-order position of the node whose exit
\* emitted each diagnostic.  That node is the diagnostic's location for every
\* category but UnreachableStatement, which is emitted when a block is left
\* and located at a statement inside that block.
C19_LogInPostOrderOfEmitters ==
    [][/\ Len(error_log') >= Len(error_log)
       /\ SubSeq(error_log', 1, Len(error_log)) = error_log
       /\ Logged # <<>> => Head(walk).listener = P2 /\ Head(walk).phase = "exit"
       /\ \A i \in 1..Len(Logged) :
              IF Logged[i].category = "UNREACHABLE_STATEMENT"
              THEN Exiting("Block") /\ Under(ctx, Logged[i].ctx) /\ Logged[i].ctx # ctx
              ELSE Logged[i].ctx = ctx
       /\ OthersInPostOrder(error_log')]_vars

\* An UnreachableStatement diagnostic stands in the log after a diagnostic
\* of another category located at a node that is left later.
C19_Witness ==
    \E i, j \in 1..Len(error_log) :
        /\ i < j
        /\ error_log[i].category # "UNREACHABLE_STATEMENT"
        /\ error_log[j].category = "UNREACHABLE_STATEMENT"
        /\ ~ExitsNoLater(error_log[i].ctx, error_log[j].ctx)

-----------------------------------------------------------------------------
(* C20 *)

\* The i-th child of the node being left is typed Error.
ErrorOperand(i) ==
    /\ Len(Kids(ctx)) >= i
    /\ Kids(ctx)[i] \in DOMAIN type_of
    /\ type_of[Kids(ctx)[i]] = T_ERROR

\* The callee of the call being left is a function, an argument typed Error
\* is paired with a parameter, and no other argument differs from its parameter.
ErrorArgument ==
    LET f == resolve(scopes, here, NodeAt(ctx).text)
        n == Len(f.type.parameter_types)
    IN /\ f.type.cls = "FunctionType"
       /\ \E i \in 1..n : ErrorOperand(i)
       /\ \A i \in 1..n :
              i <= Len(Kids(ctx))
              => \/ type_of[Kids(ctx)[i]] = T_ERROR
                 \/ type_of[Kids(ctx)[i]] = PrimitiveType(f.type.parameter_types[i])

\* The direct consumer being left has an operand typed Error, and nothing
\* else about it can make it log: unary, parenthesized and binary
\* expressions, if and while conditions, a return in a scope that returns a
\* value, a call argument, an assignment to a bound name, a declaration's
\* initializer.
ConsumesError ==
    \/ (Exiting("Neg") \/ Exiting("Parens") \/ Exiting("If") \/ Exiting("While"))
       /\ ErrorOperand(1)
    \/ (\E kind \in BinaryKinds : Exiting(kind))
       /\ \E i \in {1, 2} : ErrorOperand(i) /\ type_of[Kids(ctx)[3 - i]] \in {T_Int, T_ERROR}
    \/ Exiting("Return") /\ ErrorOperand(1) /\ scopes[here].return_type # T_Void
    \/ Exiting("FuncCall") /\ ErrorArgument
    \/ Exiting("Assignment") /\ ErrorOperand(1)
       /\ resolve(scopes, here, NodeAt(ctx).text) # None
    \/ Exiting("VarDec") /\ ErrorOperand(1) /\ ~Redeclares(ctx)

Rejection(kind) ==
    CASE kind = "Neg" -> "INVALID_NEGATION"
      [] kind \in BinaryKinds \cup {"Parens"} -> "INVALID_BINARY_OP"
      [] kind \in {"If", "While"} -> "CONDITION_NOT_BOOL"
      [] kind = "Return" -> "INVALID_RETURN"
      [] kind = "FuncCall" -> "INVALID_CALL"
      [] kind \in {"Assignment", "VarDec"} -> "ASSIGN_TO_WRONG_TYPE"
      [] kind = "Print" -> "UNPRINTABLE_EXPRESSION"

\* A direct consumer with an operand typed Error is being left: any of the
\* above, print, and a call with a function callee one of whose parameters
\* is paired with an argument typed Error.
HasErrorOperand ==
    \/ \E kind \in {"Neg", "Parens", "If", "While", "Print", "Return", "VarDec"} :
           Exiting(kind) /\ ErrorOperand(1)
    \/ \E kind \in BinaryKinds : Exiting(kind) /\ (ErrorOperand(1) \/ ErrorOperand(2))
    \/ /\ Exiting("FuncCall")
       /\ LET f == resolve(scopes, here, NodeAt(ctx).text)
          IN /\ f.type.cls = "FunctionType"
             /\ \E i \in 1..Len(f.type.parameter_types) : ErrorOperand(i)
    \/ Exiting("Assignment") /\ ErrorOperand(1)
       /\ resolve(scopes, here, NodeAt(ctx).text) # None

-----------------------------------------------------------------------------
(* C21 *)

\* The statements of the program: the children of its blocks.
Statements == {n \in Nodes : n # <<>> /\ IsKind(Parent(n), "Block")}

\* The blocks on the chain of enclosing blocks of statement s: its own block
\* and each block that holds an if or while enclosing s.
EnclosingBlocks(s) ==
    {SubSeq(s, 1, k) : k \in {k \in 1..(Len(s) - 1) : IsKind(SubSeq(s, 1, k), "Block")}}

\* In block B a return or fully terminating if precedes the statement of B
\* that is, or contains, s.
DeadIn(B, s) == \E j \in 1..(s[Len(B) + 1] - 1) : Terminates(Append(B, j))

UnreachableCount(s) == Len(At(s, Of("UNREACHABLE_STATEMENT", error_log)))

\* C21: the number of UnreachableStatement diagnostics logged against a
\* statement s is the number of blocks B on s's chain of enclosing blocks,
\* left so far, in which a return or fully terminating if precedes the
\* statement of B that is or contains s; at the end of the run that is every
\* such block.  A statement dead at several nesting levels is logged once
\* per level.
C21_UnreachableOncePerLevel ==
    \A s \in Statements :
        UnreachableCount(s)
        = Cardinality({B \in EnclosingBlocks(s) : Visited(B) /\ DeadIn(B, s)})

\* The run is over and a statement nested in a while is dead in its own
\* block and in the block that holds the while: it is logged twice.
C21_Witness ==
    /\ walk = <<>>
    /\ \E s \in Statements :
           /\ Len(s) >= 5
           /\ IsKind(Parent(Parent(s)), "While")
           /\ DeadIn(Parent(s), s)
           /\ DeadIn(Parent(Parent(Parent(s))), s)
           /\ UnreachableCount(s) = 2

====
